---- MODULE Spec2Model ----
(***************************************************************************)
(* deskspace: the sandboxed Workspace (crates/deskspace/src/workspace.rs)  *)
(* over a small POSIX-like filesystem with directories, files and          *)
(* symbolic links, the ProjectionRegistry                                  *)
(* (crates/deskspace/src/registry.rs) with the built-in projections, and   *)
(* the CSRF middleware (crates/deskspace/src/api/mod.rs).                  *)
(*                                                                         *)
(* A path is a sequence of components; ".." is the parent component.  An   *)
(* absolute location on disk is a sequence of names, <<>> being "/".       *)
(***************************************************************************)
EXTENDS Integers, Sequences, FiniteSets, TLC

VARIABLES fs, pre, call, nwrites, w, lastDone, projections, order, answer,
          lastReg, dups, http

vars == <<fs, pre, call, nwrites, w, lastDone, projections, order, answer,
          lastReg, dups, http>>

wsVars == <<fs, pre, call, nwrites>>
concVars == <<w, lastDone>>
regVars == <<projections, order, answer, lastReg, dups>>
csrfVars == <<http>>

-----------------------------------------------------------------------------
(* Bounds *)

\* longest requested path, in components
MaxRelLen == 2
\* number of write calls in one behaviour of the sequential specification
MaxWrites == 1
\* symbolic links followed in one path resolution before ELOOP
MaxLinks == 2
\* concurrent requests in flight in the concurrent specification
NProcs == 2
\* write calls begun in one behaviour of the concurrent specification
MaxConcWrites == 3

-----------------------------------------------------------------------------
(* Sequences *)

Front(s) == SubSeq(s, 1, Len(s) - 1)
Last(s) == s[Len(s)]

SeqsUpTo(S, n) == UNION { [1..k -> S] : k \in 0..n }

Perms(S) == { p \in [1..Cardinality(S) -> S] : \A x \in S : \E i \in DOMAIN p : p[i] = x }

-----------------------------------------------------------------------------
(* The filesystem *)

PARENT == ".."

DirNode == [kind |-> "dir", data |-> <<>>, target |-> <<>>]
FileNode(d) == [kind |-> "file", data |-> d, target |-> <<>>]
LinkNode(t) == [kind |-> "link", data |-> <<>>, target |-> t]

\* Workspace.root: canonical, so a real directory and not a link
Root == <<"root">>
Sibling == <<"root-evil">>

Exists(f, p) == p = <<>> \/ p \in DOMAIN f
IsDirAt(f, p) == p = <<>> \/ (p \in DOMAIN f /\ f[p].kind = "dir")

OkPath(p) == [ok |-> TRUE, err |-> "", path |-> p]
ErrPath(e) == [ok |-> FALSE, err |-> e, path |-> <<>>]

\* The kernel's path walk from directory cur over the components rest,
\* following every symbolic link (also a final one).
RECURSIVE Walk(_, _, _, _)
Walk(f, cur, rest, fuel) ==
    IF rest = <<>> THEN OkPath(cur)
    ELSE LET c == Head(rest)
             more == Tail(rest)
         IN IF c = PARENT
            THEN Walk(f, IF cur = <<>> THEN <<>> ELSE Front(cur), more, fuel)
            ELSE LET next == Append(cur, c)
                 IN IF next \notin DOMAIN f THEN ErrPath("NotFound")
                    ELSE IF f[next].kind = "link"
                         THEN IF fuel = 0 THEN ErrPath("FilesystemLoop")
                              ELSE Walk(f, <<>>, f[next].target \o more, fuel - 1)
                         ELSE IF f[next].kind = "file" /\ more # <<>>
                              THEN ErrPath("NotADirectory")
                              ELSE Walk(f, next, more, fuel)

\* std::fs::canonicalize
canonicalize(f, p) == Walk(f, <<>>, p, MaxLinks)

\* Path::exists: metadata(path).is_ok()
exists(f, p) == canonicalize(f, p).ok

-----------------------------------------------------------------------------
(* std::path::Path values: an absolute flag and the components *)

RootPath == [abs |-> TRUE, comps |-> Root]

is_absolute(p) == p.abs

\* relative.strip_prefix("/").unwrap_or(relative), for an absolute path
strip_prefix_root(p) == [abs |-> FALSE, comps |-> p.comps]

\* Path::join: an absolute argument replaces the base
join(base, p) ==
    IF p.abs THEN p ELSE [abs |-> base.abs, comps |-> base.comps \o p.comps]

\* Path::parent: None for a path with no component left
has_parent(p) == p.comps # <<>>
parent(p) == [abs |-> p.abs, comps |-> Front(p.comps)]

\* Path::file_name: None for a path that ends in ".."
has_file_name(p) == p.comps # <<>> /\ Last(p.comps) # PARENT
file_name(p) == Last(p.comps)

\* The prefix test of raw strings, which accepts a sibling whose name
\* merely starts with the base's last name.
NameStrPrefix(a, b) == a = b \/ (a = "root" /\ b = "root-evil")
starts_with_str(p, base) ==
    /\ Len(base) <= Len(p)
    /\ \A i \in 1..(Len(base) - 1) : p[i] = base[i]
    /\ base # <<>> => NameStrPrefix(base[Len(base)], p[Len(base)])

\* Path::starts_with: whole components only
starts_with(p, base) ==
    /\ Len(base) <= Len(p)
    /\ \A i \in 1..Len(base) : p[i] = base[i]

-----------------------------------------------------------------------------
(* Results *)

NoEntries == <<>>

Res(ok, err, kind) ==
    [ok |-> ok, err |-> err, kind |-> kind, path |-> <<>>, data |-> <<>>,
     entries |-> NoEntries, is_dir |-> FALSE, len |-> 0]

Ok == Res(TRUE, "", "")
PathTraversal == Res(FALSE, "PathTraversal", "")
Io(kind) == Res(FALSE, "Io", kind)

-----------------------------------------------------------------------------
(* Workspace::resolve *)

\* root.join(relative) with the leading "/" of an absolute path kept:
\* Path::join then replaces root by the absolute argument
joined_unstripped(relative) == join(RootPath, relative)

\* workspace.rs 35-40
joined_path(relative) ==
    IF is_absolute(relative)
    THEN join(RootPath, strip_prefix_root(relative))
    ELSE join(RootPath, relative)

\* the containment test on raw strings
contained_str(resolved) == starts_with_str(resolved, Root)

\* workspace.rs 55
contained(resolved) == starts_with(resolved, Root)

\* workspace.rs 31-62
resolve(f, relative) ==
    LET joined == joined_path(relative)
    IN IF exists(f, joined.comps)
       THEN LET c == canonicalize(f, joined.comps)
            IN IF ~c.ok THEN Io(c.err)
               ELSE IF ~contained(c.path) THEN PathTraversal
               ELSE [Ok EXCEPT !.path = c.path]
       ELSE IF ~has_parent(joined) THEN PathTraversal
       ELSE IF ~has_file_name(joined) THEN PathTraversal
       ELSE LET c == canonicalize(f, parent(joined).comps)
            IN IF ~c.ok THEN Io(c.err)
               ELSE LET resolved == Append(c.path, file_name(joined))
                    IN IF ~contained(resolved) THEN PathTraversal
                       ELSE [Ok EXCEPT !.path = resolved]

-----------------------------------------------------------------------------
(* The filesystem calls the Workspace makes (std::fs / tokio::fs) *)

FsOut(res, f, loc) == [res |-> res, fs |-> f, loc |-> loc]

\* tokio::fs::read
fs_read(f, p) ==
    LET c == canonicalize(f, p)
    IN IF ~c.ok THEN FsOut(Io(c.err), f, <<>>)
       ELSE IF IsDirAt(f, c.path) THEN FsOut(Io("IsADirectory"), f, <<>>)
       ELSE FsOut([Ok EXCEPT !.data = f[c.path].data], f, c.path)

\* tokio::fs::metadata: stat, following links
fs_metadata(f, p) ==
    LET c == canonicalize(f, p)
    IN IF ~c.ok THEN FsOut(Io(c.err), f, <<>>)
       ELSE IF IsDirAt(f, c.path)
            THEN FsOut([Ok EXCEPT !.is_dir = TRUE], f, c.path)
            ELSE FsOut([Ok EXCEPT !.len = Len(f[c.path].data)], f, c.path)

Children(f, d) == { q \in DOMAIN f : Len(q) = Len(d) + 1 /\ Front(q) = d }

\* mkdir(2)
mkdir(f, p) ==
    IF p = <<>> THEN FsOut(Io("AlreadyExists"), f, <<>>)
    ELSE LET c == canonicalize(f, Front(p))
         IN IF ~c.ok THEN FsOut(Io(c.err), f, <<>>)
            ELSE IF ~IsDirAt(f, c.path) THEN FsOut(Io("NotADirectory"), f, <<>>)
            ELSE IF Last(p) = PARENT THEN FsOut(Io("AlreadyExists"), f, <<>>)
            ELSE LET loc == Append(c.path, Last(p))
                 IN IF loc \in DOMAIN f THEN FsOut(Io("AlreadyExists"), f, <<>>)
                    ELSE FsOut(Ok, (loc :> DirNode) @@ f, loc)

\* Path::is_dir, following links
is_dir(f, p) ==
    LET c == canonicalize(f, p) IN c.ok /\ IsDirAt(f, c.path)

\* std::fs::create_dir_all (DirBuilder::create_dir_all)
RECURSIVE create_dir_all(_, _)
create_dir_all(f, p) ==
    LET first == mkdir(f, p)
    IN IF first.res.ok THEN first
       ELSE IF first.res.kind # "NotFound"
            THEN IF is_dir(f, p) THEN FsOut(Ok, f, <<>>) ELSE first
       ELSE IF p = <<>> THEN FsOut(Io("NotFound"), f, <<>>)
       ELSE LET up == create_dir_all(f, Front(p))
            IN IF ~up.res.ok THEN up
               ELSE LET again == mkdir(up.fs, p)
                    IN IF again.res.ok THEN again
                       ELSE IF is_dir(up.fs, p) THEN FsOut(Ok, up.fs, <<>>)
                       ELSE FsOut(again.res, up.fs, <<>>)

\* File::create: open(O_WRONLY | O_CREAT | O_TRUNC), which follows a link
\* in the last component and creates the file the link names
RECURSIVE file_create(_, _, _)
file_create(f, p, fuel) ==
    IF p = <<>> THEN FsOut(Io("IsADirectory"), f, <<>>)
    ELSE LET c == canonicalize(f, Front(p))
         IN IF ~c.ok THEN FsOut(Io(c.err), f, <<>>)
            ELSE IF ~IsDirAt(f, c.path) THEN FsOut(Io("NotADirectory"), f, <<>>)
            ELSE IF Last(p) = PARENT THEN FsOut(Io("IsADirectory"), f, <<>>)
            ELSE LET loc == Append(c.path, Last(p))
                 IN IF loc \notin DOMAIN f
                    THEN FsOut(Ok, (loc :> FileNode(<<>>)) @@ f, loc)
                    ELSE IF f[loc].kind = "dir"
                         THEN FsOut(Io("IsADirectory"), f, <<>>)
                    ELSE IF f[loc].kind = "file"
                         THEN FsOut(Ok, [f EXCEPT ![loc] = FileNode(<<>>)], loc)
                    ELSE IF fuel = 0 THEN FsOut(Io("FilesystemLoop"), f, <<>>)
                    ELSE file_create(f, f[loc].target, fuel - 1)

\* Write::write_all on a descriptor opened at offset 0: the bytes replace
\* the file's first Len(bytes) bytes and leave any later ones
Overwrite(old, bytes) ==
    IF Len(old) <= Len(bytes) THEN bytes
    ELSE bytes \o SubSeq(old, Len(bytes) + 1, Len(old))

write_all(f, loc, bytes) ==
    [f EXCEPT ![loc] = FileNode(Overwrite(f[loc].data, bytes))]

\* std::fs::write: File::create(path)?.write_all(contents)
fs_write(f, p, bytes) ==
    LET o == file_create(f, p, MaxLinks)
    IN IF ~o.res.ok THEN o
       ELSE FsOut(Ok, write_all(o.fs, o.loc, bytes), o.loc)

-----------------------------------------------------------------------------
(* Names: str::to_lowercase and the byte order of str::cmp on the names   *)
(* that occur                                                              *)

to_lowercase(n) ==
    CASE n = "A" -> "a"
      [] n = "MD" -> "md"
      [] n = "Markdown" -> "markdown"
      [] n = "PNG" -> "png"
      [] n = "Rs" -> "rs"
      [] OTHER -> n

NameRank(n) ==
    CASE n = "A" -> 1
      [] n = "a" -> 2
      [] n = "l" -> 3
      [] n = "n" -> 4
      [] n = "root" -> 5
      [] n = "root-evil" -> 6
      [] OTHER -> 0

str_lt(x, y) == NameRank(x) < NameRank(y)

\* slice::sort_by: a stable sort, so elements that compare Equal keep their
\* order in s; lt[i][j] is the comparator's Less on s[i] and s[j]
sort_by(s, lt) ==
    LET pos(i) == 1 + Cardinality({ j \in DOMAIN s :
                        lt[j][i] \/ (~lt[i][j] /\ j < i) })
    IN [k \in DOMAIN s |-> s[CHOOSE i \in DOMAIN s : pos(i) = k]]

-----------------------------------------------------------------------------
(* Workspace::read, write, metadata, read_dir *)

\* workspace.rs 64-67
read(f, path) ==
    LET r == resolve(f, path)
    IN IF ~r.ok THEN FsOut(r, f, <<>>) ELSE fs_read(f, r.path)

\* str::from_utf8 on the bytes that occur: a lone byte above 0x7f is not UTF-8
valid_utf8(d) == \A i \in DOMAIN d : d[i] < 128

\* tokio::fs::read_to_string
fs_read_to_string(f, p) ==
    LET o == fs_read(f, p)
    IN IF o.res.ok /\ ~valid_utf8(o.res.data)
       THEN FsOut(Io("InvalidData"), f, <<>>)
       ELSE o

\* workspace.rs 69-72
read_to_string(f, path) ==
    LET r == resolve(f, path)
    IN IF ~r.ok THEN FsOut(r, f, <<>>) ELSE fs_read_to_string(f, r.path)

\* a write that reports the error of resolve but has already written
\* under the canonical parent of the path
write_unchecked(f, path, contents) ==
    LET r == resolve(f, path)
        joined == joined_path(path)
    IN IF r.ok
       THEN LET d == IF r.path # <<>> THEN create_dir_all(f, Front(r.path))
                     ELSE FsOut(Ok, f, <<>>)
            IN IF ~d.res.ok THEN FsOut(d.res, d.fs, <<>>)
               ELSE fs_write(d.fs, r.path, contents)
       ELSE IF has_parent(joined) /\ has_file_name(joined)
       THEN LET c == canonicalize(f, parent(joined).comps)
            IN IF ~c.ok THEN FsOut(r, f, <<>>)
               ELSE FsOut(r, fs_write(f, Append(c.path, file_name(joined)),
                                      contents).fs, <<>>)
       ELSE FsOut(r, f, <<>>)

\* workspace.rs 82-85
metadata(f, path) ==
    LET r == resolve(f, path)
    IN IF ~r.ok THEN FsOut(r, f, <<>>) ELSE fs_metadata(f, r.path)

\* workspace.rs 74-80
write(f, path, contents) ==
    LET r == resolve(f, path)
    IN IF ~r.ok THEN FsOut(r, f, <<>>)
       ELSE LET d == IF r.path # <<>> THEN create_dir_all(f, Front(r.path))
                     ELSE FsOut(Ok, f, <<>>)
            IN IF ~d.res.ok THEN FsOut(d.res, d.fs, <<>>)
               ELSE fs_write(d.fs, r.path, contents)

\* workspace.rs 92-97: entry.metadata() does not follow a link
dir_entry(f, q) ==
    [name |-> Last(q), is_dir |-> f[q].kind = "dir",
     size |-> IF f[q].kind = "link" THEN Len(f[q].target) ELSE Len(f[q].data)]

\* workspace.rs 99-103: b.is_dir.cmp(&a.is_dir), then the lower-cased names
entry_lt(a, b) ==
    \/ a.is_dir /\ ~b.is_dir
    \/ a.is_dir = b.is_dir /\ str_lt(to_lowercase(a.name), to_lowercase(b.name))

\* workspace.rs 87-105; enum is the order in which the filesystem hands out
\* the entries of the directory
read_dir(f, path, enum) ==
    LET r == resolve(f, path)
    IN IF ~r.ok THEN FsOut(r, f, <<>>)
       ELSE LET c == canonicalize(f, r.path)
            IN IF ~c.ok THEN FsOut(Io(c.err), f, <<>>)
               ELSE IF ~IsDirAt(f, c.path) THEN FsOut(Io("NotADirectory"), f, <<>>)
               ELSE LET entries == [i \in DOMAIN enum |-> dir_entry(f, enum[i])]
                        lt == [i \in DOMAIN entries |-> [j \in DOMAIN entries |->
                                  entry_lt(entries[i], entries[j])]]
                    IN FsOut([Ok EXCEPT !.entries = sort_by(entries, lt)], f, c.path)

\* the orders in which read_dir(3) may enumerate the directory path names
Enumerations(f, path) ==
    LET r == resolve(f, path)
        c == canonicalize(f, r.path)
    IN IF r.ok /\ c.ok /\ IsDirAt(f, c.path) THEN Perms(Children(f, c.path))
       ELSE { <<>> }

-----------------------------------------------------------------------------
(* ProjectionRegistry (registry.rs) *)

\* Resource of projection.rs 8-15, as far as the confidences here read it
Resources == { "file", "dir" }

Ids == { "p1", "p2", "p3" }
ProjNames == { "Dummy", "Other" }

\* Projection::confidence in tenths, as a function of the resource
ConfFns ==
    { [r \in Resources |-> 0], [r \in Resources |-> 3], [r \in Resources |-> 9],
      [r \in Resources |-> IF r = "dir" THEN 9 ELSE 0] }

Projections == [id : Ids, name : ProjNames, conf : ConfFns]

NoProj == [id |-> "", name |-> "", conf |-> [r \in Resources |-> 0]]
None == [some |-> FALSE, val |-> NoProj]
Some(p) == [some |-> TRUE, val |-> p]

\* HashMap::values: the values in the map's iteration order
values(m, ord) == [i \in DOMAIN ord |-> m[ord[i]]]

\* registry.rs 32 and 45 with >= for >
matches_any(p, resource) == p.conf[resource] >= 0

\* registry.rs 32 and 45: the filter
matches(p, resource) == p.conf[resource] > 0

filter(s, resource) == SelectSeq(s, LAMBDA p : matches(p, resource))

\* Iterator::max_by: of several equally maximum elements the last one
RECURSIVE max_fold(_, _, _)
max_fold(best, s, resource) ==
    IF s = <<>> THEN best
    ELSE max_fold(IF best.conf[resource] > Head(s).conf[resource] THEN best ELSE Head(s),
                  Tail(s), resource)

max_by(s, resource) ==
    IF s = <<>> THEN None ELSE Some(max_fold(Head(s), Tail(s), resource))

\* registry.rs 29-38
best_for(m, ord, resource) == max_by(filter(values(m, ord), resource), resource)

\* registry.rs 46-50
info(p, resource) == [id |-> p.id, name |-> p.name, confidence |-> p.conf[resource]]

\* registry.rs 52-56: b.confidence.partial_cmp(&a.confidence)
info_lt(a, b) == b.confidence < a.confidence

\* registry.rs 41-58
available_for(m, ord, resource) ==
    LET found == filter(values(m, ord), resource)
        infos == [i \in DOMAIN found |-> info(found[i], resource)]
        lt == [i \in DOMAIN infos |-> [j \in DOMAIN infos |-> info_lt(infos[i], infos[j])]]
    IN sort_by(infos, lt)

\* an insert that keeps the value a key already has (entry().or_insert)
insert_keep(m, k, v) == IF k \in DOMAIN m THEN m ELSE (k :> v) @@ m

\* HashMap::insert: the value replaces the one the key had
insert(m, k, v) == (k :> v) @@ m

\* registry.rs 24-26
get(m, id) == IF id \in DOMAIN m THEN Some(m[id]) ELSE None

NoAnswer == [op |-> "none", resource |-> "", id |-> "", best |-> None, avail |-> <<>>]

InitIdleReg ==
    /\ projections = <<>> /\ order = <<>> /\ answer = NoAnswer
    /\ lastReg = <<>> /\ dups = {}

-----------------------------------------------------------------------------
(* The CSRF middleware (api/mod.rs).  A string is the sequence of its       *)
(* pieces, "" the empty sequence; a header value that is not visible ASCII  *)
(* is opaque: HeaderValue::to_str fails on it.                              *)

\* str::starts_with
str_starts_with(s, prefix) ==
    /\ Len(prefix) <= Len(s)
    /\ SubSeq(s, 1, Len(prefix)) = prefix

NoHeader == [present |-> FALSE, ascii |-> FALSE, value |-> <<>>]
OpaqueHeader == [present |-> TRUE, ascii |-> FALSE, value |-> <<>>]
Header(v) == [present |-> TRUE, ascii |-> TRUE, value |-> v]

\* api/mod.rs 25-29: headers().get("origin").and_then(to_str().ok()).unwrap_or("")
origin_of(header) ==
    IF header.present /\ header.ascii THEN header.value ELSE <<>>

\* api/mod.rs 19-46: "next" runs the handler, "403" is Err(FORBIDDEN)
csrf_check(request) ==
    IF request.method = "GET" \/ request.method = "HEAD" THEN "next"
    ELSE LET origin == origin_of(request.origin)
         IN IF origin = <<>> THEN "next"
            ELSE LET is_localhost ==
                         \/ str_starts_with(origin, <<"http://", "127.0.0.1">>)
                         \/ str_starts_with(origin, <<"http://", "localhost">>)
                         \/ str_starts_with(origin, <<"http://", "[::1]">>)
                 IN IF is_localhost THEN "next" ELSE "403"

Methods == { "GET", "HEAD", "PUT", "POST", "DELETE", "OPTIONS" }
Schemes == { "http://", "https://" }
Hosts == { "127.0.0.1", "localhost", "[::1]", "evil.com" }
Tails == { <<>>, <<":3000">>, <<".evil.com">> }
Origins ==
    { NoHeader, OpaqueHeader, Header(<<>>) }
        \cup { Header(<<s, h>> \o t) : s \in Schemes, h \in Hosts, t \in Tails }
Requests == [method : Methods, origin : Origins]

NoRequest == [state |-> "idle", method |-> "", origin |-> NoHeader, outcome |-> ""]

InitIdleCsrf == http = NoRequest

-----------------------------------------------------------------------------
(* Inputs and initial layouts *)

RelNames == { PARENT, "a", "l", "n" }

RelPaths == [abs : BOOLEAN, comps : SeqsUpTo(RelNames, MaxRelLen)]

Bytes == { <<1>>, <<2, 2>> }

BaseFs ==
    (Root :> DirNode) @@ (Append(Root, "A") :> FileNode(<<7>>))
    @@ (Sibling :> DirNode) @@ (Append(Sibling, "a") :> FileNode(<<9>>))

LinkTargets ==
    { Sibling, Append(Sibling, "a"), Append(Sibling, "n"),
      Append(Root, "a"), Append(Root, "l") }

WithA(f, k) ==
    IF k = "dir" THEN (Append(Root, "a") :> DirNode) @@ f
    ELSE IF k = "file" THEN (Append(Root, "a") :> FileNode(<<8>>)) @@ f
    ELSE f

WithL(f, t) ==
    IF t = <<>> THEN f ELSE (Append(Root, "l") :> LinkNode(t)) @@ f

Layouts ==
    { WithL(WithA(BaseFs, k), t) :
        k \in { "none", "dir", "file" }, t \in LinkTargets \cup { <<>> } }

-----------------------------------------------------------------------------
(* One request at a time (Spec): a call runs to completion, every          *)
(* filesystem call it makes included, and then returns.  Requests that     *)
(* overlap are the subject of SpecConc below.                              *)

NoPath == [abs |-> FALSE, comps |-> <<>>]
NoCall == [op |-> "none", rel |-> NoPath, bytes |-> <<>>, res |-> Ok, loc |-> <<>>]

Called(op, rel, bytes, out) ==
    [op |-> op, rel |-> rel, bytes |-> bytes, res |-> out.res, loc |-> out.loc]

InitWs ==
    /\ fs \in Layouts
    /\ pre = fs
    /\ call = NoCall
    /\ nwrites = 0

CallResolve(rel) ==
    /\ call.op = "none"
    /\ call' = Called("resolve", rel, <<>>, FsOut(resolve(fs, rel), fs, <<>>))
    /\ UNCHANGED <<fs, pre, nwrites, concVars, regVars, csrfVars>>

CallRead(rel) ==
    /\ call.op = "none"
    /\ call' = Called("read", rel, <<>>, read(fs, rel))
    /\ UNCHANGED <<fs, pre, nwrites, concVars, regVars, csrfVars>>

CallReadToString(rel) ==
    /\ call.op = "none"
    /\ call' = Called("read_to_string", rel, <<>>, read_to_string(fs, rel))
    /\ UNCHANGED <<fs, pre, nwrites, concVars, regVars, csrfVars>>

CallMetadata(rel) ==
    /\ call.op = "none"
    /\ call' = Called("metadata", rel, <<>>, metadata(fs, rel))
    /\ UNCHANGED <<fs, pre, nwrites, concVars, regVars, csrfVars>>

CallReadDir(rel) ==
    /\ call.op = "none"
    /\ \E enum \in Enumerations(fs, rel) :
         call' = Called("read_dir", rel, <<>>, read_dir(fs, rel, enum))
    /\ UNCHANGED <<fs, pre, nwrites, concVars, regVars, csrfVars>>

CallWrite(rel, bytes) ==
    /\ call.op = "none"
    /\ nwrites < MaxWrites
    /\ LET out == write(fs, rel, bytes)
       IN /\ call' = Called("write", rel, bytes, out)
          /\ fs' = out.fs
    /\ nwrites' = nwrites + 1
    /\ UNCHANGED <<pre, concVars, regVars, csrfVars>>

Return ==
    /\ call.op # "none"
    /\ call' = NoCall
    /\ pre' = fs
    /\ UNCHANGED <<fs, nwrites, concVars, regVars, csrfVars>>

NextWs ==
    \/ \E rel \in RelPaths : CallResolve(rel)
    \/ \E rel \in RelPaths : CallRead(rel)
    \/ \E rel \in RelPaths : CallReadToString(rel)
    \/ \E rel \in RelPaths : CallMetadata(rel)
    \/ \E rel \in RelPaths : CallReadDir(rel)
    \/ \E rel \in RelPaths, bytes \in Bytes : CallWrite(rel, bytes)
    \/ Return

Procs == 1..NProcs

IdleW == [pc |-> "idle", rel |-> NoPath, bytes |-> <<>>, resolved |-> <<>>, loc |-> <<>>]

InitIdleConc == w = [p \in Procs |-> IdleW] /\ lastDone = <<>>

Init == InitWs /\ InitIdleConc /\ InitIdleReg /\ InitIdleCsrf

Spec == Init /\ [][NextWs]_vars

-----------------------------------------------------------------------------
(* Properties of the Workspace, one request at a time (Spec) *)

InRoot(p) == Len(p) >= Len(Root) /\ SubSeq(p, 1, Len(Root)) = Root

\* Where the requested path leads: links followed where they exist, names
\* that do not exist appended as they are, ".." taken from where the walk
\* stands (realpath -m).
RECURSIVE Leads(_, _, _, _)
Leads(f, cur, rest, fuel) ==
    IF rest = <<>> THEN OkPath(cur)
    ELSE LET c == Head(rest)
             more == Tail(rest)
         IN IF c = PARENT
            THEN Leads(f, IF cur = <<>> THEN <<>> ELSE Front(cur), more, fuel)
            ELSE LET next == Append(cur, c)
                 IN IF next \in DOMAIN f /\ f[next].kind = "link"
                    THEN IF fuel = 0 THEN ErrPath("FilesystemLoop")
                         ELSE Leads(f, <<>>, f[next].target \o more, fuel - 1)
                    ELSE Leads(f, next, more, fuel)

Target(f, rel) == Leads(f, <<>>, Root \o rel.comps, MaxLinks)

\* C1: whenever resolve returns Ok(p), p is root or root's components are a
\* prefix of p's components; the sibling root-evil is never accepted.
C1_ResolveInsideRoot ==
    (call.op = "resolve" /\ call.res.ok) =>
        /\ InRoot(call.res.path)
        /\ call.res.path[1] # Sibling[1]

C1_Witness ==
    /\ call.op = "resolve"
    /\ call.res.ok
    /\ Len(call.res.path) > Len(Root)
    /\ call.res.path # Root \o call.rel.comps

\* C2: a successful read, write, metadata or read_dir touches only a file or
\* directory whose link-resolved location is inside root, and leaves
\* everything outside root as it was.
C2_NoSymlinkEscape ==
    (call.op \in { "read", "write", "metadata", "read_dir" } /\ call.res.ok) =>
        /\ InRoot(call.loc)
        /\ \A p \in DOMAIN fs \cup DOMAIN pre :
             ~InRoot(p) => p \in DOMAIN fs /\ p \in DOMAIN pre /\ fs[p] = pre[p]

\* C3: a requested path that leads outside root makes resolve fail with
\* PathTraversal, whether or not the target or its parent exists.
C3_EscapeIsPathTraversal ==
    (call.op = "resolve" /\ Target(pre, call.rel).ok
        /\ ~InRoot(Target(pre, call.rel).path)) =>
        ~call.res.ok /\ call.res.err = "PathTraversal"

\* the requested path names a place inside root, through real directories,
\* whose parent directory (one or more levels) does not exist yet
ParentMissing(f, rel) ==
    LET j == Root \o rel.comps
    IN /\ Len(rel.comps) >= 2
       /\ \A i \in DOMAIN rel.comps : rel.comps[i] # PARENT
       /\ \E k \in Len(Root)..(Len(j) - 2) :
            /\ \A i \in 1..k : IsDirAt(f, SubSeq(j, 1, i))
            /\ SubSeq(j, 1, k + 1) \notin DOMAIN f

\* C4: write(p, bytes) to a path inside root whose parent directory does not
\* exist yet succeeds: the directories are created, then the file with the
\* bytes.
C4_WriteCreatesParents ==
    (call.op = "write" /\ ParentMissing(pre, call.rel)) =>
        LET j == Root \o call.rel.comps
        IN /\ call.res.ok
           /\ \A i \in 1..(Len(j) - 1) : IsDirAt(fs, SubSeq(j, 1, i))
           /\ j \in DOMAIN fs
           /\ fs[j] = FileNode(call.bytes)

\* C6: for every x such that root/x exists, resolve("/x") and resolve("x")
\* return the same result.
C6_AbsoluteIsRootRelative ==
    (call.op = "resolve" /\ call.rel.abs /\ exists(pre, Root \o call.rel.comps)) =>
        /\ call.res = resolve(pre, [abs |-> FALSE, comps |-> call.rel.comps])
        /\ call.res.ok => InRoot(call.res.path)

C6_Witness ==
    /\ call.op = "resolve"
    /\ call.rel.abs
    /\ call.rel.comps # <<>>
    /\ exists(pre, Root \o call.rel.comps)
    /\ call.res.ok
    /\ call.res.path = Root \o call.rel.comps

\* directories first, then the lower-cased name, then the original name
FullyBefore(a, b) ==
    \/ a.is_dir /\ ~b.is_dir
    \/ a.is_dir = b.is_dir /\ str_lt(to_lowercase(a.name), to_lowercase(b.name))
    \/ /\ a.is_dir = b.is_dir
       /\ to_lowercase(a.name) = to_lowercase(b.name)
       /\ str_lt(a.name, b.name)

\* C7: read_dir returns directories before files, each group in ascending
\* order of lower-cased name, equal lower-cased names in the order of the
\* original names: the same list for every enumeration order.
C7_ReadDirFullyOrdered ==
    (call.op = "read_dir" /\ call.res.ok) =>
        \A i, j \in DOMAIN call.res.entries :
            i < j => FullyBefore(call.res.entries[i], call.res.entries[j])

WorkspaceOps == { "read", "read_to_string", "write", "metadata", "read_dir" }

\* C13: every Workspace operation calls resolve first: when resolve fails
\* the operation returns that error, and when it fails with a traversal
\* error the filesystem is unchanged: a rejected write creates no directory
\* and no file, inside or outside root.
C13_RejectedTouchesNothing ==
    (call.op \in WorkspaceOps /\ ~resolve(pre, call.rel).ok) =>
        /\ call.res = resolve(pre, call.rel)
        /\ call.loc = <<>>
        /\ fs = pre

C13_Witness ==
    /\ call.op = "write"
    /\ resolve(pre, call.rel) = PathTraversal
    /\ call.res = PathTraversal
    /\ has_parent(joined_path(call.rel))
    /\ has_file_name(joined_path(call.rel))

-----------------------------------------------------------------------------
(* Concurrent requests (SpecConc): Workspace::write of several requests in *)
(* flight, one step per filesystem call.  tokio::fs runs each std::fs call *)
(* on the blocking pool, so the calls of different requests interleave.    *)

ConcNames == { "a", "l", "n" }
ConcRels == [abs : { FALSE }, comps : SeqsUpTo(ConcNames, 1)]

\* workspace.rs 75: the request is polled and resolves its path
WriteBegin(p, rel, bytes) ==
    /\ w[p].pc = "idle"
    /\ nwrites < MaxConcWrites
    /\ nwrites' = nwrites + 1
    /\ LET r == resolve(fs, rel)
       IN w' = IF r.ok
               THEN [w EXCEPT ![p] = [pc |-> "resolved", rel |-> rel, bytes |-> bytes,
                                      resolved |-> r.path, loc |-> <<>>]]
               ELSE w
    /\ UNCHANGED <<fs, pre, call, lastDone, regVars, csrfVars>>

\* workspace.rs 76-78
WriteDirs(p) ==
    /\ w[p].pc = "resolved"
    /\ LET d == IF w[p].resolved # <<>> THEN create_dir_all(fs, Front(w[p].resolved))
                ELSE FsOut(Ok, fs, <<>>)
       IN /\ fs' = d.fs
          /\ w' = [w EXCEPT ![p] = IF d.res.ok THEN [@ EXCEPT !.pc = "dirs"] ELSE IdleW]
    /\ UNCHANGED <<pre, call, nwrites, lastDone, regVars, csrfVars>>

\* workspace.rs 79, std::fs::write: File::create
WriteOpen(p) ==
    /\ w[p].pc = "dirs"
    /\ LET o == file_create(fs, w[p].resolved, MaxLinks)
       IN /\ fs' = o.fs
          /\ w' = [w EXCEPT ![p] = IF o.res.ok THEN [@ EXCEPT !.pc = "open", !.loc = o.loc]
                                   ELSE IdleW]
    /\ UNCHANGED <<pre, call, nwrites, lastDone, regVars, csrfVars>>

\* workspace.rs 79, std::fs::write: write_all, after which the call returns
\* Ok; lastDone remembers the bytes of the write that completed last on
\* each file
WriteData(p) ==
    /\ w[p].pc = "open"
    /\ fs' = write_all(fs, w[p].loc, w[p].bytes)
    /\ lastDone' = (w[p].loc :> w[p].bytes) @@ lastDone
    /\ w' = [w EXCEPT ![p] = IdleW]
    /\ UNCHANGED <<pre, call, nwrites, regVars, csrfVars>>

NextConc ==
    \/ \E p \in Procs, rel \in ConcRels, bytes \in Bytes : WriteBegin(p, rel, bytes)
    \/ \E p \in Procs : WriteDirs(p)
    \/ \E p \in Procs : WriteOpen(p)
    \/ \E p \in Procs : WriteData(p)

SpecConc == Init /\ [][NextConc]_vars

\* C5: once no write is in progress, reading a file returns exactly the
\* bytes of the write to it that completed last, whatever was written to
\* other paths in between.
C5_LastCompletedWriteWins ==
    (\A p \in Procs : w[p].pc = "idle") =>
        \A loc \in DOMAIN lastDone : fs_read(fs, loc).res.data = lastDone[loc]

-----------------------------------------------------------------------------
(* The registry being filled and asked (SpecReg) *)

\* registry.rs 19-22: HashMap::insert replaces the value of a key the map
\* holds, in place; a new key lands wherever its hash puts it.  lastReg
\* remembers the projection registered last under each id, dups the ids
\* under which a different projection was registered before.
register(projection) ==
    /\ answer.op = "none"
    /\ projections' = insert(projections, projection.id, projection)
    /\ IF projection.id \in DOMAIN projections
       THEN order' = order
       ELSE order' \in Perms(DOMAIN projections \cup { projection.id })
    /\ lastReg' = (projection.id :> projection) @@ lastReg
    /\ dups' = IF projection.id \in DOMAIN lastReg /\ lastReg[projection.id] # projection
               THEN dups \cup { projection.id } ELSE dups
    /\ UNCHANGED <<answer, wsVars, concVars, csrfVars>>

AskGet(id) ==
    /\ answer.op = "none"
    /\ answer' = [NoAnswer EXCEPT !.op = "get", !.id = id, !.best = get(projections, id)]
    /\ UNCHANGED <<projections, order, lastReg, dups, wsVars, concVars, csrfVars>>

AskBestFor(resource) ==
    /\ answer.op = "none"
    /\ answer' = [NoAnswer EXCEPT !.op = "best_for", !.resource = resource,
                                  !.best = best_for(projections, order, resource)]
    /\ UNCHANGED <<projections, order, lastReg, dups, wsVars, concVars, csrfVars>>

AskAvailableFor(resource) ==
    /\ answer.op = "none"
    /\ answer' = [NoAnswer EXCEPT !.op = "available_for", !.resource = resource,
                                  !.avail = available_for(projections, order, resource)]
    /\ UNCHANGED <<projections, order, lastReg, dups, wsVars, concVars, csrfVars>>

\* api/files.rs 56-86: the projections listed in a response and the one
\* that renders it; query is the projection parameter, "" when absent.
\* The response is an error when the chosen projection is None.
project_resource(resource, query) ==
    /\ answer.op = "none"
    /\ answer' = [NoAnswer EXCEPT
                    !.op = "project", !.resource = resource, !.id = query,
                    !.avail = available_for(projections, order, resource),
                    !.best = IF query # "" THEN get(projections, query)
                             ELSE best_for(projections, order, resource)]
    /\ UNCHANGED <<projections, order, lastReg, dups, wsVars, concVars, csrfVars>>

Answered ==
    /\ answer.op # "none"
    /\ answer' = NoAnswer
    /\ UNCHANGED <<projections, order, lastReg, dups, wsVars, concVars, csrfVars>>

NextReg ==
    \/ \E projection \in Projections : register(projection)
    \/ \E id \in Ids : AskGet(id)
    \/ \E resource \in Resources : AskBestFor(resource)
    \/ \E resource \in Resources : AskAvailableFor(resource)
    \/ \E resource \in Resources, query \in Ids \cup {""} :
          project_resource(resource, query)
    \/ Answered

InitReg ==
    /\ fs = BaseFs /\ pre = fs /\ call = NoCall /\ nwrites = 0
    /\ InitIdleConc
    /\ InitIdleReg
    /\ InitIdleCsrf

SpecReg == InitReg /\ [][NextReg]_vars

Registered == { projections[id] : id \in DOMAIN projections }
Matching(resource) == { p \in Registered : p.conf[resource] > 0 }

\* C8: best_for returns a projection exactly when some registered projection
\* has confidence > 0 for the resource; its confidence is then the maximum
\* over the registry and is never 0; with no match it returns None.
C8_BestForIsMaximal ==
    answer.op = "best_for" =>
        /\ answer.best.some <=> Matching(answer.resource) # {}
        /\ answer.best.some =>
             /\ answer.best.val \in Registered
             /\ answer.best.val.conf[answer.resource] > 0
             /\ \A p \in Registered :
                  p.conf[answer.resource] <= answer.best.val.conf[answer.resource]
        /\ ~answer.best.some => answer.best = None

C8_Witness ==
    /\ answer.op = "best_for"
    /\ answer.best.some
    /\ \E p, q \in Registered :
         /\ p.conf[answer.resource] = 0
         /\ q.conf[answer.resource] > 0
         /\ q.conf[answer.resource] < answer.best.val.conf[answer.resource]

\* C9: under ties best_for returns the same projection for every iteration
\* order of the map, the one an explicit total order on projections fixes.
C9_BestForDeterministic ==
    answer.op = "best_for" =>
        \A ord \in Perms(DOMAIN projections) :
            best_for(projections, ord, answer.resource) = answer.best

\* C10: available_for lists exactly the registered projections of
\* confidence > 0, once each, in non-increasing confidence order, and the
\* same list for every iteration order of the map.
C10_AvailableForDeterministic ==
    answer.op = "available_for" =>
        LET a == answer.avail
        IN /\ { a[i] : i \in DOMAIN a }
                = { info(p, answer.resource) : p \in Matching(answer.resource) }
           /\ Len(a) = Cardinality(Matching(answer.resource))
           /\ \A i, j \in DOMAIN a : i < j => a[i].confidence >= a[j].confidence
           /\ \A ord \in Perms(DOMAIN projections) :
                available_for(projections, ord, answer.resource) = a

\* C11: the registry holds at most one projection per id, the one
\* registered last under it: get returns it, and best_for and available_for
\* never return or list a projection that a later registration replaced.
C11_LastRegistrationWins ==
    /\ DOMAIN projections = DOMAIN lastReg
    /\ \A id \in DOMAIN lastReg : projections[id] = lastReg[id] /\ lastReg[id].id = id
    /\ Len(order) = Cardinality(DOMAIN lastReg)
    /\ answer.op = "get" =>
         answer.best = IF answer.id \in DOMAIN lastReg
                       THEN Some(lastReg[answer.id]) ELSE None
    /\ (answer.op = "best_for" /\ answer.best.some) =>
         /\ answer.best.val.id \in DOMAIN lastReg
         /\ answer.best.val = lastReg[answer.best.val.id]
    /\ answer.op = "available_for" =>
         /\ \A i \in DOMAIN answer.avail :
              /\ answer.avail[i].id \in DOMAIN lastReg
              /\ answer.avail[i] = info(lastReg[answer.avail[i].id], answer.resource)
         /\ \A i, j \in DOMAIN answer.avail :
              answer.avail[i].id = answer.avail[j].id => i = j

C11_Witness ==
    /\ answer.op = "best_for"
    /\ answer.best.some
    /\ answer.best.val.id \in dups
    /\ Cardinality(DOMAIN lastReg) > 1

\* C14: best_for and available_for agree: in a response produced without a
\* projection parameter, whenever the listed projections are non-empty the
\* active projection is the first of the list, also when several
\* projections share the maximum confidence.
C14_ActiveIsFirstListed ==
    (answer.op = "project" /\ answer.id = "" /\ answer.avail # <<>>) =>
        /\ answer.best.some
        /\ answer.best.val.id = answer.avail[1].id

-----------------------------------------------------------------------------
(* The server's registry (SpecMain): main registers the four built-in      *)
(* projections, then requests are projected.  Confidences are in tenths.   *)

\* text_raw.rs 6-76
TEXT_EXTENSIONS ==
    { "txt", "rs", "toml", "json", "yaml", "yml", "xml", "html", "css", "js",
      "ts", "tsx", "jsx", "py", "rb", "go", "c", "cpp", "h", "hpp", "java",
      "kt", "swift", "sh", "bash", "zsh", "fish", "ps1", "bat", "cmd", "sql",
      "graphql", "proto", "lua", "vim", "el", "clj", "ex", "exs", "erl", "hs",
      "ml", "mli", "r", "jl", "nim", "zig", "v", "d", "ada", "pas", "f90",
      "lisp", "scm", "rkt", "conf", "ini", "cfg", "env", "lock", "csv", "tsv",
      "log", "diff", "patch", "nix", "tf", "dockerfile", "makefile" }

\* image_preview.rs 6
IMAGE_EXTENSIONS == { "png", "jpg", "jpeg", "gif", "webp", "svg" }

\* Option<String>
NoExt == [some |-> FALSE, val |-> ""]
SomeExt(e) == [some |-> TRUE, val |-> e]

\* The last component of a request path: stem, then "." and after when dot
AfterDot ==
    TEXT_EXTENSIONS \cup IMAGE_EXTENSIONS
        \cup { "md", "markdown", "MD", "Markdown", "PNG", "Rs", "exe", "pdf", "" }
ApiPaths ==
    { n \in [stem : { "", "x" }, dot : BOOLEAN, after : AfterDot] :
        /\ ~n.dot => n.after = ""
        /\ n.stem = "" => n.dot /\ n.after # "" }

\* Path::extension: None without a dot and for a name that only begins
\* with its one dot, else what follows the last dot
extension(n) ==
    IF ~n.dot \/ n.stem = "" THEN NoExt ELSE SomeExt(n.after)

\* projection.rs 18-31
Resource_new(path, dir) ==
    [path |-> path, is_dir |-> dir,
     extension |-> IF dir THEN NoExt
                   ELSE LET e == extension(path)
                        IN IF e.some THEN SomeExt(to_lowercase(e.val)) ELSE NoExt]

ApiResources == { Resource_new(path, dir) : path \in ApiPaths, dir \in BOOLEAN }

\* dir_list.rs 18-24
dir_list_confidence(resource) == IF resource.is_dir THEN 10 ELSE 0

\* a text.raw that takes every file it does not know for text
text_raw_confidence_any(resource) ==
    IF resource.is_dir THEN 0
    ELSE IF resource.extension.some /\ resource.extension.val \in TEXT_EXTENSIONS THEN 8
    ELSE 3

\* text_raw.rs 128-137
text_raw_confidence(resource) ==
    IF resource.is_dir THEN 0
    ELSE IF resource.extension.some /\ resource.extension.val \in TEXT_EXTENSIONS THEN 8
    ELSE IF resource.extension.some THEN 0
    ELSE 3

\* text_markdown.rs 58-66
text_markdown_confidence(resource) ==
    IF resource.is_dir THEN 0
    ELSE IF resource.extension.some /\ resource.extension.val \in { "md", "markdown" } THEN 10
    ELSE 0

\* image_preview.rs 20-28
image_preview_confidence(resource) ==
    IF resource.is_dir THEN 0
    ELSE IF resource.extension.some /\ resource.extension.val \in IMAGE_EXTENSIONS THEN 10
    ELSE 0

DirList ==
    [id |-> "dir.list", name |-> "Directory Listing",
     conf |-> [r \in ApiResources |-> dir_list_confidence(r)]]
TextRaw ==
    [id |-> "text.raw", name |-> "Plain Text",
     conf |-> [r \in ApiResources |-> text_raw_confidence(r)]]
TextMarkdown ==
    [id |-> "text.markdown", name |-> "Markdown",
     conf |-> [r \in ApiResources |-> text_markdown_confidence(r)]]
ImagePreview ==
    [id |-> "image.preview", name |-> "Image Preview",
     conf |-> [r \in ApiResources |-> image_preview_confidence(r)]]

\* main.rs 24-27, in the order of the calls
Builtins == << DirList, TextRaw, TextMarkdown, ImagePreview >>

\* main.rs 23-27: the next register call of main
main_register ==
    /\ Len(order) < Len(Builtins)
    /\ register(Builtins[Len(order) + 1])

\* api/files.rs 49-57 and 64-86: a request without projection parameter for
\* a path whose metadata says is_dir
get_file(path, dir) ==
    /\ Len(order) = Len(Builtins)
    /\ project_resource(Resource_new(path, dir), "")

NextMain ==
    \/ main_register
    \/ \E path \in ApiPaths, dir \in BOOLEAN : get_file(path, dir)
    \/ Answered

SpecMain == InitReg /\ [][NextMain]_vars

BuiltinIds == { "dir.list", "text.raw", "text.markdown", "image.preview" }

\* the one projection the claim assigns to a resource, none as <<>>
Assigned(r) ==
    IF r.is_dir THEN << "dir.list" >>
    ELSE IF ~r.extension.some THEN << "text.raw" >>
    ELSE IF r.extension.val \in { "md", "markdown" } THEN << "text.markdown" >>
    ELSE IF r.extension.val \in IMAGE_EXTENSIONS THEN << "image.preview" >>
    ELSE IF r.extension.val \in TEXT_EXTENSIONS THEN << "text.raw" >>
    ELSE << >>

\* C15: with exactly the four built-in projections registered, at most one
\* has confidence > 0 for any resource: a directory goes to dir.list only,
\* an md/markdown file to text.markdown only, an image extension to
\* image.preview only, a known text extension or an extensionless file to
\* text.raw only, and any other extension gets no projection.
C15_BuiltinsNeverTie ==
    (answer.op = "project" /\ DOMAIN projections = BuiltinIds) =>
        LET r == answer.resource
            listed == [i \in DOMAIN answer.avail |-> answer.avail[i].id]
        IN /\ Cardinality({ id \in BuiltinIds : projections[id].conf[r] > 0 }) <= 1
           /\ listed = Assigned(r)
           /\ answer.best = IF listed = << >> THEN None
                            ELSE Some(projections[listed[1]])

C15_Witness ==
    /\ answer.op = "project"
    /\ DOMAIN projections = BuiltinIds
    /\ ~answer.resource.is_dir
    /\ answer.resource.path.after = "MD"
    /\ answer.best.some
    /\ answer.best.val.id = "text.markdown"

-----------------------------------------------------------------------------
(* Requests through the middleware (SpecCsrf) *)

\* api/mod.rs 19-46 behind router's layer (59)
CsrfCheck(request) ==
    /\ http.state = "idle"
    /\ http' = [state |-> "done", method |-> request.method,
                origin |-> request.origin, outcome |-> csrf_check(request)]
    /\ UNCHANGED <<wsVars, concVars, regVars>>

Responded ==
    /\ http.state = "done"
    /\ http' = NoRequest
    /\ UNCHANGED <<wsVars, concVars, regVars>>

NextCsrf ==
    \/ \E request \in Requests : CsrfCheck(request)
    \/ Responded

SpecCsrf == InitReg /\ [][NextCsrf]_vars

LocalHosts == { "127.0.0.1", "localhost", "[::1]" }

\* the Origin names one of the local hosts over http, with or without port
IsLocalhostOrigin(header) ==
    /\ header.present /\ header.ascii
    /\ Len(header.value) \in { 2, 3 }
    /\ header.value[1] = "http://"
    /\ header.value[2] \in LocalHosts
    /\ Len(header.value) = 3 => header.value[3] = ":3000"

\* C12: the middleware rejects every request whose method is not GET or
\* HEAD with 403 unless its Origin is localhost (127.0.0.1, localhost or
\* [::1] over http); GET and HEAD always reach the handler.
C12_CsrfRejectsForeign ==
    http.state = "done" =>
        /\ http.method \in { "GET", "HEAD" } => http.outcome = "next"
        /\ (http.method \notin { "GET", "HEAD" } /\ ~IsLocalhostOrigin(http.origin))
              => http.outcome = "403"

====
